---- MODULE Spec2Model ----
(***************************************************************************)
(* A model of showdown.py: the websocket client (showdown/client.py), its  *)
(* room and battle state (showdown/room.py) and the wire parsers           *)
(* (showdown/utils.py).                                                    *)
(*                                                                         *)
(* Python str values are TLA+ strings handled one character at a time      *)
(* (Head, Tail, SubSeq, Len, \o); a Python list of str is a sequence of    *)
(* strings; a dict is a function whose DOMAIN is the key set.              *)
(***************************************************************************)
EXTENDS Integers, Sequences, FiniteSets, TLC

(***************************************************************************)
(* Bounds of the model                                                     *)
(***************************************************************************)
MaxFrames == 2        \* calls of websocket.recv: frames read, or the close
MaxOut == 2           \* commands the producers enqueue
MaxEvents == 4        \* events applied to the stand-alone Battle
MaxLogs == 2          \* max_room_logs passed to the Client / max_logs of a Room
MaxBlocks == 2        \* blocks of a frame handed to parse_socket_input alone
MaxCalls == 2         \* calls of the command surface and of login by a caller
MaxNameLen == 3       \* length of a display string handed to name_to_id alone

(***************************************************************************)
(* Python values                                                           *)
(***************************************************************************)
\* None where a str is expected (no wire string of the model equals it)
None == "<None>"
\* None where an object is expected
NoneObj == [none |-> TRUE]

Truthy(s) == s # None /\ s # ""

\* the cased letters: ASCII and, for the letters beyond it that str.lower
\* and re's \w know, one pair
UPPER == "ABCDEFGHIJKLMNOPQRSTUVWXYZÉ"
LOWER == "abcdefghijklmnopqrstuvwxyzé"
DIGITS == "0123456789"

CharAt(s, i) == SubSeq(s, i, i)
InStr(c, s) == \E i \in 1..Len(s) : CharAt(s, i) = c

\* str.lower() on one character
lowerChar(c) ==
    IF InStr(c, UPPER)
    THEN CharAt(LOWER, CHOOSE i \in 1..Len(UPPER) : CharAt(UPPER, i) = c)
    ELSE c

RECURSIVE lower(_)
lower(s) == IF s = "" THEN "" ELSE lowerChar(Head(s)) \o lower(Tail(s))

IsSpace(c) == c \in {" ", "\t", "\n", "\r"}

RECURSIVE lstrip(_)
lstrip(s) == IF s # "" /\ IsSpace(Head(s)) THEN lstrip(Tail(s)) ELSE s

RECURSIVE rstrip(_)
rstrip(s) ==
    IF s # "" /\ IsSpace(CharAt(s, Len(s)))
    THEN rstrip(SubSeq(s, 1, Len(s) - 1))
    ELSE s

\* str.strip()
strip(s) == rstrip(lstrip(s))

\* str.split(d) for a one-character delimiter: always at least one field
RECURSIVE splitAcc(_, _, _)
splitAcc(s, d, cur) ==
    IF s = "" THEN <<cur>>
    ELSE IF Head(s) = d THEN <<cur>> \o splitAcc(Tail(s), d, "")
    ELSE splitAcc(Tail(s), d, cur \o Head(s))

split(s, d) == splitAcc(s, d, "")

\* str.splitlines(): no trailing empty line, "" gives [], "\r\n" is one break
RECURSIVE splitlinesAcc(_, _)
splitlinesAcc(s, cur) ==
    IF s = "" THEN (IF cur = "" THEN <<>> ELSE <<cur>>)
    ELSE IF Head(s) = "\r" /\ Tail(s) # "" /\ Head(Tail(s)) = "\n"
         THEN <<cur>> \o splitlinesAcc(Tail(Tail(s)), "")
    ELSE IF Head(s) \in {"\n", "\r"}
         THEN <<cur>> \o splitlinesAcc(Tail(s), "")
    ELSE splitlinesAcc(Tail(s), cur \o Head(s))

splitlines(s) == splitlinesAcc(s, "")

startswith(s, p) == Len(s) >= Len(p) /\ SubSeq(s, 1, Len(p)) = p

\* list[k:] of a Python list (k counted from 0)
ListFrom(l, k) == IF Len(l) <= k THEN <<>> ELSE SubSeq(l, k + 1, Len(l))

(***************************************************************************)
(* showdown/utils.py                                                       *)
(***************************************************************************)
\* the characters re's \W does not match, less the underscore
IsWordChar(c) == InStr(c, LOWER) \/ InStr(c, UPPER) \/ InStr(c, DIGITS)

RECURSIVE removeNonWord(_)
removeNonWord(s) ==
    IF s = "" THEN ""
    ELSE (IF IsWordChar(Head(s)) THEN Head(s) ELSE "") \o removeNonWord(Tail(s))

\* keeps the case of the letters
name_to_idKeepsCase(input_str) == strip(removeNonWord(input_str))

name_to_id(input_str) == strip(removeNonWord(lower(input_str)))

\* keeps the case of the type
parse_text_inputKeepsCase(text_input) ==
    LET tokens == split(strip(text_input), "|") IN
    IF Len(tokens) = 1
    THEN [inp_type |-> "rawtext", params |-> tokens]
    ELSE [inp_type |-> tokens[2], params |-> ListFrom(tokens, 2)]

parse_text_input(text_input) ==
    LET tokens == split(strip(text_input), "|") IN
    IF Len(tokens) = 1
    THEN [inp_type |-> "rawtext", params |-> tokens]
    ELSE [inp_type |-> lower(tokens[2]), params |-> ListFrom(tokens, 2)]

(***************************************************************************)
(* showdown/user.py is not among the sources: a User is the display name   *)
(* and its normalized id, and a name matches on the display name.          *)
(***************************************************************************)
User(name) == [name |-> name, id |-> name_to_id(name)]

name_matches(u, other_name) == u.name = other_name

(***************************************************************************)
(* showdown/room.py                                                        *)
(*                                                                         *)
(* A method that can raise returns [obj |-> the object as the exception    *)
(* leaves it, err |-> the exception type, "" when none].                   *)
(***************************************************************************)
Ok(o) == [obj |-> o, err |-> ""]
Raise(o, e) == [obj |-> o, err |-> e]

Room(room_id, max_logs) ==
    [cls |-> "Room", id |-> room_id, logs |-> <<>>, maxlen |-> max_logs,
     userlist |-> <<>>, title |-> None]

Battle(room_id, max_logs) ==
    [cls |-> "Battle", id |-> room_id, logs |-> <<>>, maxlen |-> max_logs,
     userlist |-> <<>>, title |-> None,
     rules |-> <<>>,
     players |-> [p \in {"p1", "p2"} |-> NoneObj],
     rated |-> FALSE, ended |-> FALSE, tier |-> None,
     winner |-> NoneObj, loser |-> NoneObj,
     winner_id |-> None, loser_id |-> None]

\* dict[key] = value
DictSet(d, key, value) ==
    [k \in (DOMAIN d) \cup {key} |-> IF k = key THEN value ELSE d[k]]

\* keeps the key
DictPopKeeps(d, key) == d

\* dict.pop(key, None)
DictPop(d, key) == [k \in (DOMAIN d) \ {key} |-> d[k]]

\* a full log drops the new line instead of the oldest
dequeAppendKeepsOldest(logs, maxlen, content) ==
    IF Len(logs) >= maxlen THEN logs ELSE Append(logs, content)

\* deque(maxlen).append
dequeAppend(logs, maxlen, content) ==
    LET all == Append(logs, content) IN
    IF Len(all) > maxlen THEN SubSeq(all, Len(all) - maxlen + 1, Len(all)) ELSE all

\* files the user under the string given instead of under its id
add_userByName(r, user_str) ==
    LET new_user == User(user_str) IN
    [r EXCEPT !.userlist = DictSet(@, user_str, new_user)]

add_user(r, user_str) ==
    LET new_user == User(user_str) IN
    [r EXCEPT !.userlist = DictSet(@, new_user.id, new_user)]

\* leaves the occupant in
remove_userKeeps(r, user_id) == r

remove_user(r, user_id) == [r EXCEPT !.userlist = DictPop(@, user_id)]

RECURSIVE addUsers(_, _)
addUsers(r, user_strs) ==
    IF user_strs = <<>> THEN r
    ELSE addUsers(add_user(r, Head(user_strs)), Tail(user_strs))

Room_update(r, inp_type, params) ==
    IF inp_type \in {"title", "users", "l", "j"} /\ Len(params) = 0
    THEN Raise(r, "IndexError")
    ELSE IF inp_type = "title" THEN Ok([r EXCEPT !.title = params[1]])
    ELSE IF inp_type = "users"
         THEN Ok(addUsers(r, ListFrom(split(params[1], ","), 1)))
    ELSE IF inp_type = "n"
         THEN IF Len(params) # 2 THEN Raise(r, "ValueError")
              ELSE Ok(add_user(remove_user(r, params[2]), params[1]))
    ELSE IF inp_type = "l" THEN Ok(remove_user(r, name_to_id(params[1])))
    ELSE IF inp_type = "j" THEN Ok(add_user(r, params[1]))
    ELSE Ok(r)

\* gives the win to the first slot whatever the name
Battle_winFirstSlot(b, winner_name) ==
    IF b.players["p1"] = NoneObj THEN Raise(b, "AttributeError")
    ELSE Ok([b EXCEPT !.winner = b.players["p1"], !.winner_id = "p1",
                      !.loser = b.players["p2"], !.loser_id = "p2",
                      !.ended = TRUE])

Battle_win(b, winner_name) ==
    IF b.players["p1"] = NoneObj THEN Raise(b, "AttributeError")
    ELSE IF name_matches(b.players["p1"], winner_name)
         THEN Ok([b EXCEPT !.winner = b.players["p1"], !.winner_id = "p1",
                           !.loser = b.players["p2"], !.loser_id = "p2",
                           !.ended = TRUE])
    ELSE IF b.players["p2"] = NoneObj THEN Raise(b, "AttributeError")
    ELSE IF name_matches(b.players["p2"], winner_name)
         THEN Ok([b EXCEPT !.winner = b.players["p2"], !.winner_id = "p2",
                           !.loser = b.players["p1"], !.loser_id = "p1",
                           !.ended = TRUE])
    ELSE Ok([b EXCEPT !.ended = TRUE])

\* the rated branch sets ended instead of rated
Battle_updateRatedEnds(b, inp_type, params) ==
    LET base == Room_update(b, inp_type, params)
        r == base.obj
    IN
    IF base.err # "" THEN base
    ELSE IF inp_type = "player"
         THEN IF Len(params) < 2 THEN Raise(r, "IndexError")
              ELSE Ok([r EXCEPT !.players = DictSet(@, params[1], User(params[2]))])
    ELSE IF inp_type = "rated" THEN Ok([r EXCEPT !.ended = TRUE])
    ELSE IF inp_type = "tier"
         THEN IF Len(params) = 0 THEN Raise(r, "IndexError")
              ELSE Ok([r EXCEPT !.tier = name_to_id(params[1])])
    ELSE IF inp_type = "rule"
         THEN IF Len(params) = 0 THEN Raise(r, "IndexError")
              ELSE Ok([r EXCEPT !.rules = Append(@, params[1])])
    ELSE IF inp_type = "win"
         THEN IF Len(params) = 0 THEN Raise(r, "IndexError")
              ELSE Battle_win(r, params[1])
    ELSE Ok(r)

Battle_update(b, inp_type, params) ==
    LET base == Room_update(b, inp_type, params)
        r == base.obj
    IN
    IF base.err # "" THEN base
    ELSE IF inp_type = "player"
         THEN IF Len(params) < 2 THEN Raise(r, "IndexError")
              ELSE Ok([r EXCEPT !.players = DictSet(@, params[1], User(params[2]))])
    ELSE IF inp_type = "rated" THEN Ok([r EXCEPT !.rated = TRUE])
    ELSE IF inp_type = "tier"
         THEN IF Len(params) = 0 THEN Raise(r, "IndexError")
              ELSE Ok([r EXCEPT !.tier = name_to_id(params[1])])
    ELSE IF inp_type = "rule"
         THEN IF Len(params) = 0 THEN Raise(r, "IndexError")
              ELSE Ok([r EXCEPT !.rules = Append(@, params[1])])
    ELSE IF inp_type = "win"
         THEN IF Len(params) = 0 THEN Raise(r, "IndexError")
              ELSE Battle_win(r, params[1])
    ELSE Ok(r)

\* the update method of the object's class
update(r, inp_type, params) ==
    IF r.cls = "Battle" THEN Battle_update(r, inp_type, params)
    ELSE Room_update(r, inp_type, params)

add_content(r, content) ==
    LET logged == [r EXCEPT !.logs = dequeAppend(@, r.maxlen, content)]
        parsed == parse_text_input(content)
    IN update(logged, parsed.inp_type, parsed.params)

\* room.class_map.get(room_type, room.Room)(room_id, max_logs=...)
class_map_new(room_type, room_id, max_logs) ==
    IF room_type = "battle" THEN Battle(room_id, max_logs) ELSE Room(room_id, max_logs)

(***************************************************************************)
(* Inbound frames.  A frame is its leading text followed by a JSON         *)
(* document; json.loads is modelled by its result on that document: the    *)
(* decoded value (an array's elements, an object's keys) or a decode       *)
(* error.                                                                  *)
(***************************************************************************)
JNone == [kind |-> "none", items |-> <<>>]
JInvalid == [kind |-> "invalid", items |-> <<>>]
JNumber == [kind |-> "number", items |-> <<>>]
JArray(blocks) == [kind |-> "array", items |-> blocks]
JObject(keys) == [kind |-> "object", items |-> keys]

Frame(text, payload) == [text |-> text, payload |-> payload]
ControlFrame == Frame("o", JNone)
ArrayFrame(blocks) == Frame("a", JArray(blocks))

\* drops the first line of a block without a marker too
parse_rowSkipsFirst(row) ==
    LET loaded == splitlines(row) IN
    IF loaded = <<>> THEN Raise(<<>>, "IndexError")
    ELSE IF startswith(loaded[1], ">")
         THEN LET rest == Tail(loaded[1])
                  room_id == IF rest = "" THEN "lobby" ELSE rest
              IN Ok([i \in 1..(Len(loaded) - 1) |-> <<room_id, loaded[i + 1]>>])
    ELSE Ok([i \in 1..(Len(loaded) - 1) |-> <<"lobby", loaded[i + 1]>>])

\* one row of the decoded array: its (room_id, event) pairs
parse_row(row) ==
    LET loaded == splitlines(row) IN
    IF loaded = <<>> THEN Raise(<<>>, "IndexError")
    ELSE IF startswith(loaded[1], ">")
         THEN LET rest == Tail(loaded[1])
                  room_id == IF rest = "" THEN "lobby" ELSE rest
              IN Ok([i \in 1..(Len(loaded) - 1) |-> <<room_id, loaded[i + 1]>>])
    ELSE Ok([i \in 1..Len(loaded) |-> <<"lobby", loaded[i]>>])

\* puts the pairs of a later block in front
RECURSIVE parse_rowsNewestFirst(_, _)
parse_rowsNewestFirst(rows, result) ==
    IF rows = <<>> THEN Ok(result)
    ELSE LET r == parse_row(Head(rows)) IN
         IF r.err # "" THEN Raise(result, r.err)
         ELSE parse_rowsNewestFirst(Tail(rows), r.obj \o result)

RECURSIVE parse_rows(_, _)
parse_rows(rows, result) ==
    IF rows = <<>> THEN Ok(result)
    ELSE LET r == parse_row(Head(rows)) IN
         IF r.err # "" THEN Raise(result, r.err)
         ELSE parse_rows(Tail(rows), result \o r.obj)

parse_socket_input(socket_input) ==
    IF startswith(socket_input.text, "a")
    THEN IF Len(socket_input.text) > 1 \/ socket_input.payload.kind \in {"none", "invalid"}
         THEN Raise(<<>>, "JSONDecodeError")
         ELSE IF socket_input.payload.kind = "number" THEN Raise(<<>>, "TypeError")
         ELSE parse_rows(socket_input.payload.items, <<>>)
    ELSE Raise(<<>>, "ValueError")

(***************************************************************************)
(* showdown/client.py: the command surface                                 *)
(***************************************************************************)
\* asyncio.Queue.put / get of the unbounded output queue
add_output(queue, output_str) == Append(queue, output_str)

\* takes the newest string instead of the oldest
queue_getNewest(queue) ==
    [item |-> queue[Len(queue)], rest |-> SubSeq(queue, 1, Len(queue) - 1)]

queue_get(queue) == [item |-> Head(queue), rest |-> Tail(queue)]

join(room_id) ==
    "|/join " \o (IF name_to_id(room_id) = "lobby" THEN "" ELSE room_id)

query_battles(tier) == "|/cmd roomlist " \o name_to_id(name_to_id(tier))

\* what a command method did: the strings it handed to add_output, in
\* order, and the exception it raised, "" when none
Done(items) == [items |-> items, err |-> ""]
Raised(items, e) == [items |-> items, err |-> e]

\* the longest content sent as it is
ContentLimit == 300

\* utils.clean_message_content(content): utils.py never imports warnings, so
\* the branch of a long content raises NameError at warnings.warn
clean_message_content(content) ==
    IF Len(content) > ContentLimit THEN Raise(content, "NameError")
    ELSE Ok(content)

\* utils.clean_message_content(content, strict=strict), as say and
\* private_message call it: the function has no parameter strict, so the
\* call raises TypeError before its body runs
clean_message_content_strict(content, strict) == Raise(content, "TypeError")

leave(room_id) ==
    Done(<<(IF name_to_id(room_id) = "lobby" THEN "" ELSE room_id) \o "|/leave">>)

save_replay(battle_id) == Done(<<battle_id \o "|/savereplay">>)

forfeit(battle_id) == Done(<<battle_id \o "|/forfeit">>)

upload_team(team_str) == Done(<<"|/utm " \o team_str>>)

\* upload_team's add_output, then its own
search_battles(team_str, battle_format) ==
    Done(upload_team(team_str).items
         \o <<"|/search " \o name_to_id(battle_format)>>)

private_message(user_name, content, strict) ==
    LET cleaned == clean_message_content_strict(content, strict) IN
    IF cleaned.err # "" THEN Raised(<<>>, cleaned.err)
    ELSE Done(<<"|/msg " \o name_to_id(user_name) \o ", " \o cleaned.obj>>)

say(room_id, content, strict) ==
    LET cleaned == clean_message_content_strict(content, strict) IN
    IF cleaned.err # "" THEN Raised(<<>>, cleaned.err)
    ELSE Done(<<(IF room_id = "lobby" THEN "" ELSE room_id) \o "|" \o cleaned.obj>>)

\* the literal frame login writes
trn_frame(client_name, assertion) ==
    <<"|/trn " \o client_name \o ",0," \o assertion>>

(***************************************************************************)
(* State                                                                   *)
(***************************************************************************)
VARIABLES
    name,            \* Client.name: the account name given to the constructor
    password,        \* Client.password
    autologin,       \* Client.autologin
    challengekeyid,  \* Client.challengekeyid
    challstr,        \* Client.challstr
    output_queue,    \* Client.output_queue: the strings waiting to be sent
    rooms,           \* Client.rooms: room id -> Room / Battle
    websocket,       \* the frames written to the transport: [by, data]
    hpc,             \* where Client._handler is
    tstate,          \* the state of each task of the group
    terr,            \* the exception each task ended with
    spc,             \* where Client.sender is inside one unit of work
    out,             \* sender's local variable out
    rpc,             \* where Client.receiver is inside one unit of work
    inputs,          \* receiver's (room_id, inp) pairs not processed yet
    nframes,         \* calls of websocket.recv so far
    trace,           \* what the receive task did: frames read, events, calls of
                     \* hooks and collaborators, frames written
    enq,             \* every string handed to add_output, in call order
    battle,          \* a Battle object events are applied to (add_content)
    applied,         \* the raw event lines applied to it, oldest first
    lastErr,         \* the exception the last add_content raised, "" when none
    frame_in,        \* a frame handed to parse_socket_input
    pairs_out,       \* what parse_socket_input returned or raised for it
    events_out,      \* parse_text_input of its first events, in order
    room,            \* a Room object events are applied to (add_content)
    roomApplied,     \* the raw event lines applied to it, oldest first
    roomErr,         \* the exception the last add_content on it raised
    calls,           \* the calls of the caller: [cmd, args, err]
    display,         \* a display string handed to name_to_id
    ids_out          \* name_to_id of it, then name_to_id of that result

cvars == <<name, password, autologin, challengekeyid, challstr, output_queue,
           rooms, websocket, hpc, tstate, terr, spc, out, rpc, inputs,
           nframes, trace, enq>>
bvars == <<battle, applied, lastErr>>
pvars == <<frame_in, pairs_out, events_out>>
rvars == <<room, roomApplied, roomErr>>
nvars == <<display, ids_out>>
uvars == <<frame_in, pairs_out, events_out, room, roomApplied, roomErr, calls,
           display, ids_out>>
vars == <<name, password, autologin, challengekeyid, challstr, output_queue,
          rooms, websocket, hpc, tstate, terr, spc, out, rpc, inputs,
          nframes, trace, enq, battle, applied, lastErr,
          frame_in, pairs_out, events_out, room, roomApplied, roomErr, calls,
          display, ids_out>>

\* the methods flagged by on_interval: the two of Client and one of a subclass
Tasks == {"receiver", "sender", "ticker"}

NoErr == [type |-> "", raw |-> NoneObj]
Exc(type) == [type |-> type, raw |-> NoneObj]

Entry(by, ev, a) == [by |-> by, ev |-> ev, a |-> a]

\* the state right after Client.__init__
ClientNew ==
    /\ challengekeyid = None
    /\ challstr = None
    /\ output_queue = <<>>
    /\ rooms = <<>>
    /\ autologin = FALSE
    /\ websocket = <<>>
    /\ hpc = "new"
    /\ tstate = [t \in Tasks |-> "new"]
    /\ terr = [t \in Tasks |-> NoErr]
    /\ spc = "get"
    /\ out = <<>>
    /\ rpc = "recv"
    /\ inputs = <<>>
    /\ nframes = 0
    /\ trace = <<>>
    /\ enq = <<>>

BattleNew ==
    /\ battle = Battle("b1", MaxLogs)
    /\ applied = <<>>
    /\ lastErr = ""

RoomNew ==
    /\ room = Room("r1", MaxLogs)
    /\ roomApplied = <<>>
    /\ roomErr = ""

\* nothing decoded yet
ParseNew ==
    /\ pairs_out = NoneObj
    /\ events_out = <<>>

\* nothing normalized yet
NamesNew == ids_out = <<>>

(***************************************************************************)
(* Client.start, Client._handler                                           *)
(***************************************************************************)
\* the loop runs the tasks from ensure_future until _handler is left
Runs(t) == hpc \in {"wait", "exit"} /\ tstate[t] = "running"

Fail(t, e) ==
    /\ tstate' = [tstate EXCEPT ![t] = "failed"]
    /\ terr' = [terr EXCEPT ![t] = e]

start(al) ==
    /\ hpc = "new"
    /\ autologin' = al
    /\ tstate' = [t \in Tasks |-> "running"]
    /\ hpc' = "wait"
    /\ UNCHANGED <<name, password, challengekeyid, challstr, output_queue, rooms,
                   websocket, terr, spc, out, rpc, inputs, nframes, trace, enq>>

\* leaves the pending tasks alone
cancelNothing(st) == st

\* task.cancel() asks for the cancellation of a pending task
cancel(st) == IF st = "running" THEN "cancelling" ELSE st

\* asyncio.wait(FIRST_COMPLETED) returns and the pending tasks are cancelled
handler_wake ==
    /\ hpc = "wait"
    /\ \E t \in Tasks : tstate[t] = "failed"
    /\ tstate' = [t \in Tasks |-> cancel(tstate[t])]
    /\ hpc' = "exit"
    /\ UNCHANGED <<name, password, autologin, challengekeyid, challstr,
                   output_queue, rooms, websocket, terr, spc, out, rpc, inputs,
                   nframes, trace, enq>>

\* the next pass of the loop resumes the tasks asked to cancel: each gets
\* CancelledError at its suspension point
tasks_cancelled ==
    /\ hpc = "exit"
    /\ \E t \in Tasks : tstate[t] = "cancelling"
    /\ tstate' = [t \in Tasks |->
                    IF tstate[t] = "cancelling" THEN "cancelled" ELSE tstate[t]]
    /\ UNCHANGED <<name, password, autologin, challengekeyid, challstr,
                   output_queue, rooms, websocket, hpc, terr, spc, out, rpc,
                   inputs, nframes, trace, enq>>

\* the async with block is left and run_until_complete returns
handler_exit ==
    /\ hpc = "exit"
    /\ hpc' = "closed"
    /\ UNCHANGED <<name, password, autologin, challengekeyid, challstr,
                   output_queue, rooms, websocket, tstate, terr, spc, out, rpc,
                   inputs, nframes, trace, enq>>

(***************************************************************************)
(* Client.sender                                                           *)
(***************************************************************************)
sender_get ==
    /\ Runs("sender")
    /\ spc = "get"
    /\ output_queue # <<>>
    /\ LET got == queue_get(output_queue) IN
        /\ out' = <<got.item>>
        /\ output_queue' = got.rest
    /\ spc' = "send"
    /\ UNCHANGED <<name, password, autologin, challengekeyid, challstr, rooms,
                   websocket, hpc, tstate, terr, rpc, inputs, nframes, trace, enq>>

\* goes on to the sleep without writing
sender_sendDrops ==
    /\ Runs("sender")
    /\ spc = "send"
    /\ spc' = "sleep"
    /\ UNCHANGED <<name, password, autologin, challengekeyid, challstr,
                   output_queue, rooms, websocket, hpc, tstate, terr, out, rpc,
                   inputs, nframes, trace, enq>>

sender_send ==
    /\ Runs("sender")
    /\ spc = "send"
    /\ websocket' = Append(websocket, [by |-> "sender", data |-> out])
    /\ spc' = "sleep"
    /\ UNCHANGED <<name, password, autologin, challengekeyid, challstr,
                   output_queue, rooms, hpc, tstate, terr, out, rpc, inputs,
                   nframes, trace, enq>>

\* websocket.send raises on a closed connection
sender_send_fail ==
    /\ Runs("sender")
    /\ spc = "send"
    /\ Fail("sender", Exc("ConnectionClosed"))
    /\ UNCHANGED <<name, password, autologin, challengekeyid, challstr,
                   output_queue, rooms, websocket, hpc, spc, out, rpc, inputs,
                   nframes, trace, enq>>

\* asyncio.sleep(len(out) * .5), then the wrapper's own sleep
sender_sleep ==
    /\ Runs("sender")
    /\ spc = "sleep"
    /\ spc' = "get"
    /\ UNCHANGED <<name, password, autologin, challengekeyid, challstr,
                   output_queue, rooms, websocket, hpc, tstate, terr, out, rpc,
                   inputs, nframes, trace, enq>>

(***************************************************************************)
(* A subclass's interval task: one unit of work issues one command         *)
(***************************************************************************)
TickerCommands == {join("Lobby"), query_battles("gen7ou")}

ticker_run(cmd) ==
    /\ Runs("ticker")
    /\ Len(enq) < MaxOut
    /\ output_queue' = add_output(output_queue, cmd)
    /\ enq' = Append(enq, cmd)
    /\ UNCHANGED <<name, password, autologin, challengekeyid, challstr, rooms,
                   websocket, hpc, tstate, terr, spc, out, rpc, inputs, nframes,
                   trace>>

(***************************************************************************)
(* Client.login                                                            *)
(***************************************************************************)
\* does not ask for the challenge
login_checkSkipsChallenge(ck, n, p) ==
    IF ~Truthy(n) THEN "Exception"
    ELSE IF ~Truthy(p) THEN "Exception"
    ELSE ""

\* the three guards of login: the exception raised, "" when none
login_check(ck, n, p) ==
    IF ~Truthy(ck) THEN "Exception"
    ELSE IF ~Truthy(n) THEN "Exception"
    ELSE IF ~Truthy(p) THEN "Exception"
    ELSE ""

\* the challenge values in the other order
login_argsSwapped(n, p, cs, ck) == <<n, p, ck, cs>>

\* the arguments of server.login_async
login_args(n, p, cs, ck) == <<n, p, cs, ck>>

\* what login raises on actionsuccess false: the message names result_data,
\* which no scope defines, so building it raises NameError and the ValueError
\* with the login result is never constructed
login_failure(login_data) == Exc("NameError")

\* the answers of the credential exchange
LoginResults ==
    {[actionsuccess |-> TRUE, assertion |-> "A9"],
     [actionsuccess |-> FALSE, assertion |-> ""]}

BoolStr(b) == IF b THEN "true" ELSE "false"

(***************************************************************************)
(* Client.receiver                                                         *)
(***************************************************************************)
\* the frames the peer sends
ChallengeLine(id, token) == "|challstr|" \o id \o "|" \o token

Frames ==
    {ControlFrame,
     Frame("x", JNone),
     Frame("a", JObject(<<"|init|chat">>)),
     ArrayFrame(<<ChallengeLine("4", "tok")>>),
     ArrayFrame(<<">r1\n|init|chat\n|j|Ash", ">r2\n|deinit", ">b1\n|init|battle">>),
     ArrayFrame(<<">r1\n|deinit", ">b1\n|win|Ash">>)}

\* parse_socket_input and parse_text_input over the frames of the peer,
\* computed once
decoded == [frame \in Frames |-> parse_socket_input(frame)]

Lines ==
    UNION {{decoded[frame].obj[i][2] : i \in DOMAIN decoded[frame].obj} :
           frame \in Frames}

parsed_line == [inp \in Lines |-> parse_text_input(inp)]

\* goes on without credentials instead of raising
on_challstrSilent(n, p, al) ==
    IF Truthy(n) /\ Truthy(p) /\ al THEN "login" ELSE "continue"

\* what the challstr branch does once the two values are stored
on_challstr(n, p, al) ==
    IF Truthy(n) /\ Truthy(p) /\ al THEN "login"
    ELSE IF al THEN "raise"
    ELSE "continue"

\* calls the catch-all hook before the room is updated
event_doneHookFirst(trace1, room_id, inp, known) ==
    LET parsed == parsed_line[inp] IN
    trace1
    \o <<Entry("receiver", "on_receive",
               <<room_id, parsed.inp_type>> \o parsed.params)>>
    \o (IF known THEN <<Entry("receiver", "add_content", <<room_id, inp>>)>>
        ELSE <<>>)

\* what the end of one event adds to the trace: add_content on the room the
\* client holds under room_id, then the catch-all hook
event_done(trace1, room_id, inp, known) ==
    LET parsed == parsed_line[inp] IN
    trace1
    \o (IF known THEN <<Entry("receiver", "add_content", <<room_id, inp>>)>>
        ELSE <<>>)
    \o <<Entry("receiver", "on_receive",
               <<room_id, parsed.inp_type>> \o parsed.params)>>

\* the end of one event: the event is added to its room, then on_receive
finish_event(room_id, inp, rooms1, trace1) ==
    LET known == room_id \in DOMAIN rooms1
        res == IF known THEN add_content(rooms1[room_id], inp) ELSE Ok(NoneObj)
    IN
    /\ rooms' = IF known THEN [rooms1 EXCEPT ![room_id] = res.obj] ELSE rooms1
    /\ IF res.err # ""
       THEN /\ Fail("receiver", Exc(res.err))
            /\ trace' = trace1
            /\ UNCHANGED <<rpc, inputs>>
       ELSE /\ trace' = event_done(trace1, room_id, inp, known)
            /\ inputs' = Tail(inputs)
            /\ rpc' = IF Tail(inputs) = <<>> THEN "recv" ELSE "events"
            /\ UNCHANGED <<tstate, terr>>

\* the receive task dies with exception e in the middle of an event
abort_event(e, trace1) ==
    /\ Fail("receiver", e)
    /\ trace' = trace1
    /\ UNCHANGED <<rooms, rpc, inputs>>

\* login up to the credential exchange, which suspends the receive task
login_begin(ck, cs, trace1) ==
    IF login_check(ck, name, password) # ""
    THEN abort_event(Exc(login_check(ck, name, password)), trace1)
    ELSE /\ trace' = Append(trace1, Entry("receiver", "login_async",
                                          login_args(name, password, cs, ck)))
         /\ rpc' = "login"
         /\ UNCHANGED <<rooms, inputs, tstate, terr>>

\* goes on to decode the control frame after the connect hook
receiver_recvNoReturn(frame) ==
    /\ Runs("receiver")
    /\ rpc = "recv"
    /\ nframes < MaxFrames
    /\ nframes' = nframes + 1
    /\ LET t1 == Append(trace, Entry("receiver", "recv",
                                     <<frame.text, frame.payload.kind>>))
           t2 == IF frame = ControlFrame
                 THEN Append(t1, Entry("receiver", "on_connect", <<>>))
                 ELSE t1
           parsed == decoded[frame]
       IN
       IF parsed.err # ""
       THEN /\ Fail("receiver", Exc(parsed.err))
            /\ trace' = t2
            /\ UNCHANGED <<rpc, inputs>>
       ELSE /\ inputs' = parsed.obj
            /\ rpc' = IF parsed.obj = <<>> THEN "recv" ELSE "events"
            /\ trace' = Append(t2, Entry("receiver", "parse_socket_input",
                                         parsed.obj))
            /\ UNCHANGED <<tstate, terr>>
    /\ UNCHANGED <<name, password, autologin, challengekeyid, challstr,
                   output_queue, rooms, websocket, hpc, spc, out, enq>>

\* websocket.recv and the decoding of the frame
receiver_recv(frame) ==
    /\ Runs("receiver")
    /\ rpc = "recv"
    /\ nframes < MaxFrames
    /\ nframes' = nframes + 1
    /\ LET t1 == Append(trace, Entry("receiver", "recv",
                                     <<frame.text, frame.payload.kind>>))
           parsed == decoded[frame]
       IN
       IF frame = ControlFrame
       THEN /\ trace' = Append(t1, Entry("receiver", "on_connect", <<>>))
            /\ UNCHANGED <<tstate, terr, rpc, inputs>>
       ELSE IF parsed.err # ""
       THEN /\ Fail("receiver", Exc(parsed.err))
            /\ trace' = t1
            /\ UNCHANGED <<rpc, inputs>>
       ELSE /\ inputs' = parsed.obj
            /\ rpc' = IF parsed.obj = <<>> THEN "recv" ELSE "events"
            /\ trace' = Append(t1, Entry("receiver", "parse_socket_input",
                                         parsed.obj))
            /\ UNCHANGED <<tstate, terr>>
    /\ UNCHANGED <<name, password, autologin, challengekeyid, challstr,
                   output_queue, rooms, websocket, hpc, spc, out, enq>>

\* websocket.recv raises on a closed connection
receiver_closed ==
    /\ Runs("receiver")
    /\ rpc = "recv"
    /\ nframes < MaxFrames
    /\ nframes' = nframes + 1
    /\ Fail("receiver", Exc("ConnectionClosed"))
    /\ UNCHANGED <<name, password, autologin, challengekeyid, challstr,
                   output_queue, rooms, websocket, hpc, spc, out, rpc, inputs,
                   trace, enq>>

\* one round of the loop over inputs
receiver_event ==
    /\ Runs("receiver")
    /\ rpc = "events"
    /\ LET room_id == inputs[1][1]
           inp == inputs[1][2]
           inp_type == parsed_line[inp].inp_type
           params == parsed_line[inp].params
           t1 == Append(trace, Entry("receiver", "event", <<room_id, inp>>))
       IN
       IF inp_type = "challstr"
       THEN IF Len(params) # 2
            THEN /\ abort_event(Exc("ValueError"), t1)
                 /\ UNCHANGED <<challengekeyid, challstr>>
            ELSE /\ challengekeyid' = params[1]
                 /\ challstr' = params[2]
                 /\ IF on_challstr(name, password, autologin) = "login"
                    THEN login_begin(params[1], params[2], t1)
                    ELSE IF on_challstr(name, password, autologin) = "raise"
                    THEN abort_event(Exc("Exception"), t1)
                    ELSE finish_event(room_id, inp, rooms, t1)
       ELSE IF inp_type = "queryresponse"
       THEN /\ UNCHANGED <<challengekeyid, challstr>>
            /\ IF params = <<>>
               THEN abort_event(Exc("IndexError"), t1)
               ELSE finish_event(room_id, inp, rooms,
                        Append(t1, Entry("receiver", "on_query_response",
                                         <<params[1]>>)))
       ELSE IF inp_type \in {"c:", "c"}
       THEN /\ UNCHANGED <<challengekeyid, challstr>>
            /\ finish_event(room_id, inp, rooms,
                   Append(t1, Entry("receiver", "on_chat_message", <<room_id>>)))
       ELSE IF inp_type = "pm"
       THEN /\ UNCHANGED <<challengekeyid, challstr>>
            /\ finish_event(room_id, inp, rooms,
                   Append(t1, Entry("receiver", "on_private_message", <<>>)))
       ELSE IF inp_type = "init"
       THEN /\ UNCHANGED <<challengekeyid, challstr>>
            /\ IF params = <<>>
               THEN abort_event(Exc("IndexError"), t1)
               ELSE finish_event(room_id, inp,
                        DictSet(rooms, room_id,
                                class_map_new(params[1], room_id, MaxLogs)),
                        Append(t1, Entry("receiver", "on_room_init", <<room_id>>)))
       ELSE IF inp_type = "deinit" /\ room_id \in DOMAIN rooms
       THEN /\ UNCHANGED <<challengekeyid, challstr>>
            /\ finish_event(room_id, inp, DictPop(rooms, room_id),
                   Append(t1, Entry("receiver", "on_room_deinit", <<room_id>>)))
       ELSE /\ UNCHANGED <<challengekeyid, challstr>>
            /\ finish_event(room_id, inp, rooms, t1)
    /\ UNCHANGED <<name, password, autologin, output_queue, websocket, hpc,
                   spc, out, nframes, enq>>

\* the credential exchange answers and login goes on to the end of the event
login_return(login_data) ==
    /\ Runs("receiver")
    /\ rpc = "login"
    /\ LET t1 == Append(trace, Entry("receiver", "login_data",
                     <<BoolStr(login_data.actionsuccess), login_data.assertion>>))
           frame == trn_frame(name, login_data.assertion)
       IN
       IF ~login_data.actionsuccess
       THEN /\ abort_event(login_failure(login_data), t1)
            /\ UNCHANGED websocket
       ELSE /\ websocket' = Append(websocket, [by |-> "receiver", data |-> frame])
            /\ finish_event(inputs[1][1], inputs[1][2], rooms,
                   t1 \o <<Entry("receiver", "send", frame),
                           Entry("receiver", "on_login", <<>>)>>)
    /\ UNCHANGED <<name, password, autologin, challengekeyid, challstr,
                   output_queue, hpc, spc, out, nframes, enq>>

(***************************************************************************)
(* The client over one connection                                          *)
(***************************************************************************)
Names == {"", "bot"}
Passwords == {"", "pw"}

Init ==
    /\ name \in Names
    /\ password \in Passwords
    /\ ClientNew
    /\ BattleNew
    /\ RoomNew
    /\ frame_in = ControlFrame
    /\ ParseNew
    /\ calls = <<>>
    /\ display = ""
    /\ NamesNew

Next ==
    \/ \E al \in BOOLEAN : start(al) /\ UNCHANGED <<bvars, uvars>>
    \/ handler_wake /\ UNCHANGED <<bvars, uvars>>
    \/ tasks_cancelled /\ UNCHANGED <<bvars, uvars>>
    \/ handler_exit /\ UNCHANGED <<bvars, uvars>>
    \/ sender_get /\ UNCHANGED <<bvars, uvars>>
    \/ sender_send /\ UNCHANGED <<bvars, uvars>>
    \/ sender_send_fail /\ UNCHANGED <<bvars, uvars>>
    \/ sender_sleep /\ UNCHANGED <<bvars, uvars>>
    \/ \E cmd \in TickerCommands : ticker_run(cmd) /\ UNCHANGED <<bvars, uvars>>
    \/ \E frame \in Frames : receiver_recv(frame) /\ UNCHANGED <<bvars, uvars>>
    \/ receiver_closed /\ UNCHANGED <<bvars, uvars>>
    \/ receiver_event /\ UNCHANGED <<bvars, uvars>>
    \/ \E login_data \in LoginResults : login_return(login_data) /\ UNCHANGED <<bvars, uvars>>

Spec == Init /\ [][Next]_vars

(***************************************************************************)
(* A Battle under a stream of events                                       *)
(***************************************************************************)
BattleLines ==
    {"|player|p1|Ash", "|player|p2|Gary", "|player|p3|Red", "|win|Ash",
     "|win|Gary", "|win|Red", "|rated", "|tier|OU", "|rule|Mega", "|j|Ash",
     "|l|Ash", "|title|T"}

BattleInit ==
    /\ name = ""
    /\ password = ""
    /\ ClientNew
    /\ BattleNew
    /\ RoomNew
    /\ frame_in = ControlFrame
    /\ ParseNew
    /\ calls = <<>>
    /\ display = ""
    /\ NamesNew

BattleApply(line) ==
    /\ Len(applied) < MaxEvents
    /\ LET res == add_content(battle, line) IN
        /\ battle' = res.obj
        /\ lastErr' = res.err
    /\ applied' = Append(applied, line)
    /\ UNCHANGED <<cvars, uvars>>

BattleNext == \E line \in BattleLines : BattleApply(line)

SpecBattle == BattleInit /\ [][BattleNext]_vars

(***************************************************************************)
(* A caller (a hook or an interval task of a subclass) on a running        *)
(* connection started without autologin: it calls the command methods and  *)
(* login while the receive task reads the challenge                        *)
(***************************************************************************)
RECURSIVE Rep(_, _)
Rep(c, n) ==
    IF n = 0 THEN ""
    ELSE IF n = 1 THEN c
    ELSE Rep(c, n \div 2) \o Rep(c, n - (n \div 2))

Contents == {"hi", Rep("x", ContentLimit + 1)}

CallEntry(cmd, args, strict, err) ==
    [cmd |-> cmd, args |-> args, strict |-> strict, err |-> err]

\* the calls of the command surface: the method, its str arguments, strict
Commands ==
    {CallEntry("join", <<room_id>>, FALSE, "") : room_id \in {"Lobby", "r1"}}
    \cup {CallEntry("leave", <<"r1">>, FALSE, ""),
          CallEntry("forfeit", <<"b1">>, FALSE, ""),
          CallEntry("save_replay", <<"b1">>, FALSE, ""),
          CallEntry("upload_team", <<"team">>, FALSE, ""),
          CallEntry("search_battles", <<"", "gen7ou">>, FALSE, "")}
    \cup {CallEntry("say", <<"lobby", content>>, strict, "") :
              content \in Contents, strict \in BOOLEAN}
    \cup {CallEntry("private_message", <<"Ash", content>>, strict, "") :
              content \in Contents, strict \in BOOLEAN}

\* the method the call names, on its arguments
Invoke(c) ==
    IF c.cmd = "join" THEN Done(<<join(c.args[1])>>)
    ELSE IF c.cmd = "leave" THEN leave(c.args[1])
    ELSE IF c.cmd = "forfeit" THEN forfeit(c.args[1])
    ELSE IF c.cmd = "save_replay" THEN save_replay(c.args[1])
    ELSE IF c.cmd = "upload_team" THEN upload_team(c.args[1])
    ELSE IF c.cmd = "search_battles" THEN search_battles(c.args[1], c.args[2])
    ELSE IF c.cmd = "say" THEN say(c.args[1], c.args[2], c.strict)
    ELSE private_message(c.args[1], c.args[2], c.strict)

RECURSIVE add_outputs(_, _)
add_outputs(queue, items) ==
    IF items = <<>> THEN queue
    ELSE add_outputs(add_output(queue, Head(items)), Tail(items))

caller_command(c) ==
    /\ hpc = "wait"
    /\ Len(calls) < MaxCalls
    /\ LET res == Invoke(c) IN
        /\ output_queue' = add_outputs(output_queue, res.items)
        /\ enq' = enq \o res.items
        /\ calls' = Append(calls, CallEntry(c.cmd, c.args, c.strict, res.err))
    /\ UNCHANGED <<name, password, autologin, challengekeyid, challstr, rooms,
                   websocket, hpc, tstate, terr, spc, out, rpc, inputs, nframes,
                   trace>>
    /\ UNCHANGED <<bvars, pvars, rvars, nvars>>

\* await client.login() by the caller, the credential exchange included
caller_login(login_data) ==
    /\ hpc = "wait"
    /\ Len(calls) < MaxCalls
    /\ LET check == login_check(challengekeyid, name, password)
           t1 == Append(trace, Entry("caller", "login_async",
                     login_args(name, password, challstr, challengekeyid)))
           frame == trn_frame(name, login_data.assertion)
       IN
       IF check # ""
       THEN /\ calls' = Append(calls, CallEntry("login", <<>>, FALSE, check))
            /\ UNCHANGED <<websocket, trace>>
       ELSE IF ~login_data.actionsuccess
       THEN /\ calls' = Append(calls, CallEntry("login", <<>>, FALSE,
                                                login_failure(login_data).type))
            /\ trace' = t1
            /\ UNCHANGED websocket
       ELSE /\ calls' = Append(calls, CallEntry("login", <<>>, FALSE, ""))
            /\ websocket' = Append(websocket, [by |-> "caller", data |-> frame])
            /\ trace' = t1 \o <<Entry("caller", "send", frame),
                                 Entry("caller", "on_login", <<>>)>>
    /\ UNCHANGED <<name, password, autologin, challengekeyid, challstr,
                   output_queue, rooms, hpc, tstate, terr, spc, out, rpc, inputs,
                   nframes, enq>>
    /\ UNCHANGED <<bvars, pvars, rvars, nvars>>

ChallengeFrame == ArrayFrame(<<ChallengeLine("4", "tok")>>)

CommandsNext ==
    \/ start(FALSE) /\ UNCHANGED <<bvars, uvars>>
    \/ receiver_recv(ChallengeFrame) /\ UNCHANGED <<bvars, uvars>>
    \/ receiver_event /\ UNCHANGED <<bvars, uvars>>
    \/ \E c \in Commands : caller_command(c)
    \/ \E login_data \in LoginResults : caller_login(login_data)

SpecCommands == Init /\ [][CommandsNext]_vars

(***************************************************************************)
(* The output channel: an interval task queues commands and the drain      *)
(* task writes them, until a write fails or the connection closes.  The    *)
(* event loop runs a task that is ready, so the drain task's steps are     *)
(* weakly fair.                                                            *)
(***************************************************************************)
DrainNext ==
    \/ start(FALSE) /\ UNCHANGED <<bvars, uvars>>
    \/ handler_wake /\ UNCHANGED <<bvars, uvars>>
    \/ tasks_cancelled /\ UNCHANGED <<bvars, uvars>>
    \/ handler_exit /\ UNCHANGED <<bvars, uvars>>
    \/ sender_get /\ UNCHANGED <<bvars, uvars>>
    \/ sender_send /\ UNCHANGED <<bvars, uvars>>
    \/ sender_send_fail /\ UNCHANGED <<bvars, uvars>>
    \/ sender_sleep /\ UNCHANGED <<bvars, uvars>>
    \/ \E cmd \in TickerCommands : ticker_run(cmd) /\ UNCHANGED <<bvars, uvars>>
    \/ receiver_closed /\ UNCHANGED <<bvars, uvars>>

\* one step of the drain task that is not a failure
sender_step ==
    /\ sender_get \/ sender_send \/ sender_sleep
    /\ UNCHANGED <<bvars, uvars>>

SpecDrain == Init /\ [][DrainNext]_vars /\ WF_vars(sender_step)

(***************************************************************************)
(* A Room under a stream of events                                         *)
(***************************************************************************)
RoomLines ==
    {"|users|5,user1,user2", "|l|user1", "|j|User1", "|n|User3|user2",
     "|n|User1|user1", "|j|+User2", "|l|USER 2", "|title|T"}

RoomInit ==
    /\ name = ""
    /\ password = ""
    /\ ClientNew
    /\ BattleNew
    /\ RoomNew
    /\ frame_in = ControlFrame
    /\ ParseNew
    /\ calls = <<>>
    /\ display = ""
    /\ NamesNew

RoomApply(line) ==
    /\ Len(roomApplied) < MaxEvents
    /\ LET res == add_content(room, line) IN
        /\ room' = res.obj
        /\ roomErr' = res.err
    /\ roomApplied' = Append(roomApplied, line)
    /\ UNCHANGED <<cvars, bvars, pvars, nvars, calls>>

RoomNext == \E line \in RoomLines : RoomApply(line)

SpecRoom == RoomInit /\ [][RoomNext]_vars

(***************************************************************************)
(* parse_socket_input and parse_text_input on their own: a frame of blocks *)
(* is decoded, then its events are parsed one after the other              *)
(***************************************************************************)
Blocks ==
    {">room1\nA\nB", ">room2\nC", "X\nY", ">\nX\nY", "|c:|123|user|hello",
     "|J|Ash\nhello", ""}

BlockLists == UNION {[1..n -> Blocks] : n \in 0..MaxBlocks}

ParseInit ==
    /\ name = ""
    /\ password = ""
    /\ ClientNew
    /\ BattleNew
    /\ RoomNew
    /\ frame_in \in {ArrayFrame(blocks) : blocks \in BlockLists}
    /\ ParseNew
    /\ calls = <<>>
    /\ display = ""
    /\ NamesNew

decode ==
    /\ pairs_out = NoneObj
    /\ pairs_out' = parse_socket_input(frame_in)
    /\ UNCHANGED <<cvars, bvars, rvars, nvars, frame_in, events_out, calls>>

parse_event ==
    /\ pairs_out # NoneObj
    /\ pairs_out.err = ""
    /\ Len(events_out) < Len(pairs_out.obj)
    /\ events_out' =
          Append(events_out,
                 parse_text_input(pairs_out.obj[Len(events_out) + 1][2]))
    /\ UNCHANGED <<cvars, bvars, rvars, nvars, frame_in, pairs_out, calls>>

ParseNext == decode \/ parse_event

SpecParse == ParseInit /\ [][ParseNext]_vars

(***************************************************************************)
(* name_to_id on its own: a display string is normalized, then the result  *)
(* is normalized again                                                     *)
(***************************************************************************)
NameChars == {"Z", "a", "+", "_", " ", "1", "É"}

RECURSIVE Concat(_)
Concat(seq) == IF seq = <<>> THEN "" ELSE Head(seq) \o Concat(Tail(seq))

Displays ==
    {Concat(seq) : seq \in UNION {[1..n -> NameChars] : n \in 0..MaxNameLen}}
    \cup {"+Zarel", "zarel"}

NamesInit ==
    /\ name = ""
    /\ password = ""
    /\ ClientNew
    /\ BattleNew
    /\ RoomNew
    /\ frame_in = ControlFrame
    /\ ParseNew
    /\ calls = <<>>
    /\ display \in Displays
    /\ NamesNew

normalize ==
    /\ Len(ids_out) < 2
    /\ ids_out' = Append(ids_out,
                         name_to_id(IF ids_out = <<>> THEN display
                                    ELSE ids_out[Len(ids_out)]))
    /\ UNCHANGED <<cvars, bvars, pvars, rvars, calls, display>>

NamesNext == normalize

SpecNames == NamesInit /\ [][NamesNext]_vars

(***************************************************************************)
(* Properties                                                              *)
(***************************************************************************)
\* the strings the drain task wrote, in the order written
SenderWrites == SelectSeq(websocket, LAMBDA w : w.by = "sender")

HasEntry(ev) == \E i \in DOMAIN trace : trace[i].ev = ev

MissingCredentials == ~(Truthy(name) /\ Truthy(password))

\* C1: the drain task writes the strings handed to add_output in the order of
\* the add_output calls: what it has written is always an initial part of
\* that order, one string per frame, none twice, none out of place.
C1_OutputFifo ==
    /\ Len(SenderWrites) <= Len(enq)
    /\ \A i \in DOMAIN SenderWrites : SenderWrites[i].data = <<enq[i]>>

C1_Witness ==
    /\ Len(SenderWrites) = 2
    /\ enq[1] # enq[2]

\* C2: every frame on the transport was written by the drain task.
C2_SingleWriter == \A i \in DOMAIN websocket : websocket[i].by = "sender"

\* C3 as stated: once the group-await has returned, every task other than
\* the one that ended is in the cancelled state.
C3_CancelledBeforeReturn ==
    hpc \in {"exit", "closed"} =>
        \A t \in Tasks : tstate[t] \in {"failed", "cancelled"}

\* C3 as amended: the group-await returns when a task has ended; from then on
\* no task is running (each has failed, has a cancellation request or is
\* cancelled), and the only steps left are a sibling taking its cancellation
\* and the handler leaving the connection.
NoTaskRunning ==
    hpc \in {"exit", "closed"} =>
        /\ \E t \in Tasks : tstate[t] = "failed"
        /\ \A t \in Tasks : tstate[t] \in {"failed", "cancelling", "cancelled"}

OnlyTeardownSteps ==
    hpc \in {"exit", "closed"} =>
        /\ UNCHANGED <<name, password, autologin, challengekeyid, challstr,
                       output_queue, rooms, websocket, terr, spc, out, rpc,
                       inputs, nframes, trace, enq>>
        /\ hpc' \in {hpc, "closed"}
        /\ \A t \in Tasks :
              \/ tstate'[t] = tstate[t]
              \/ tstate[t] = "cancelling" /\ tstate'[t] = "cancelled"

C3_CancelRequested == []NoTaskRunning /\ [][OnlyTeardownSteps]_vars

C3_Witness ==
    /\ hpc = "closed"
    /\ \E t \in Tasks :
          /\ tstate[t] = "failed"
          /\ \A u \in Tasks \ {t} : tstate[u] = "cancelled"

DecodeErrors == {"ValueError", "JSONDecodeError", "TypeError"}

\* a frame was read that is neither the control frame nor an array of blocks
BadFrameRead ==
    \E i \in DOMAIN trace :
        /\ trace[i].ev = "recv"
        /\ trace[i].a # <<"o", "none">>
        /\ trace[i].a # <<"a", "array">>

\* C4: a frame that is neither the control frame nor an array of blocks makes
\* the receive task end with a decode error, and from then on nothing is
\* written to the transport, no frame or event is processed and the rooms
\* stay as they were.
DecodeErrorRaised ==
    /\ tstate["receiver"] = "failed"
    /\ terr["receiver"].type \in DecodeErrors

C4_DecodeErrorTearsDown ==
    /\ [](BadFrameRead => DecodeErrorRaised)
    /\ [][DecodeErrorRaised => UNCHANGED <<websocket, rooms, trace, nframes>>]_vars

\* the rooms the processed events leave open: an init opens, a deinit closes
RECURSIVE Live(_)
Live(tr) ==
    IF tr = <<>> THEN {}
    ELSE LET e == tr[Len(tr)]
             before == Live(SubSeq(tr, 1, Len(tr) - 1))
         IN IF e.ev = "on_receive" /\ e.a[2] = "init" THEN before \cup {e.a[1]}
            ELSE IF e.ev = "on_receive" /\ e.a[2] = "deinit" THEN before \ {e.a[1]}
            ELSE before

\* the receive task is about to process a deinit event of a room it does not hold
DeinitOfAbsentRoom ==
    /\ Runs("receiver")
    /\ rpc = "events"
    /\ parse_text_input(inputs[1][2]).inp_type = "deinit"
    /\ inputs[1][1] \notin DOMAIN rooms

\* C5: the keys of rooms are the ids with an init event and no deinit event
\* since; the Room under key k has id k; a deinit event of an id that is not
\* a key changes no room and raises nothing.
RoomsAreLive ==
    /\ DOMAIN rooms = Live(trace)
    /\ \A k \in DOMAIN rooms : rooms[k].id = k

AbsentDeinitIsNoop ==
    (DeinitOfAbsentRoom /\ trace' # trace) =>
        (rooms' = rooms /\ tstate'["receiver"] = "running")

C5_RoomLifecycle == []RoomsAreLive /\ [][AbsentDeinitIsNoop]_vars

C5_Witness ==
    /\ \E i \in DOMAIN trace :
          trace[i].ev = "on_room_deinit" /\ trace[i].a = <<"r1">>
    /\ \E i \in DOMAIN trace :
          trace[i].ev = "on_receive" /\ trace[i].a = <<"r2", "deinit">>
    /\ "r1" \notin DOMAIN rooms

Outcome(b) == <<b.ended, b.winner, b.loser, b.winner_id, b.loser_id>>

\* C6: once a win event has set the outcome of a Battle, no later event
\* changes ended, winner, loser, winner_id or loser_id.
OutcomeKept ==
    (battle.ended /\ battle.winner_id # None) => Outcome(battle') = Outcome(battle)

C6_EndsOnce == [][OutcomeKept]_vars

LastApplied == parse_text_input(applied[Len(applied)])

NoSlotNamed(b, n) ==
    \A p \in DOMAIN b.players :
        b.players[p] = NoneObj \/ b.players[p].name # n

\* no win event among the events applied before the last one
NoEarlierWin ==
    \A i \in 1..(Len(applied) - 1) : parse_text_input(applied[i]).inp_type # "win"

\* C7: a win event naming neither player, applied to a Battle no win event
\* was applied to, raises nothing and leaves ended false and winner, loser,
\* winner_id and loser_id unset.
C7_UnresolvedWin ==
    (/\ applied # <<>>
     /\ LastApplied.inp_type = "win"
     /\ NoEarlierWin
     /\ NoSlotNamed(battle, LastApplied.params[1]))
    => /\ lastErr = ""
       /\ Outcome(battle) = <<FALSE, NoneObj, NoneObj, None, None>>

IsChallenge(e) == e.ev = "event" /\ e.a[2] = ChallengeLine("4", "tok")

\* C8: the handshake of one challenge event.  The two values are stored as
\* the event gives them; with autologin and both credentials the exchange is
\* called right after, with (name, password, token, id); the identity
\* command follows a successful answer only, carries its assertion, is on
\* the transport, and on_login follows it; without autologin no exchange is
\* ever started.
C8_Handshake ==
    /\ \A i \in DOMAIN trace :
        /\ (IsChallenge(trace[i]) /\ on_challstr(name, password, autologin) = "login")
              => (i < Len(trace) /\ trace[i + 1].ev = "login_async")
        /\ (IsChallenge(trace[i]) /\ \A j \in (i + 1)..Len(trace) : ~IsChallenge(trace[j]))
              => (challengekeyid = "4" /\ challstr = "tok")
        /\ trace[i].ev = "login_async"
              => /\ i > 1
                 /\ IsChallenge(trace[i - 1])
                 /\ trace[i].a = <<name, password, "tok", "4">>
                 /\ autologin /\ name # "" /\ password # ""
        /\ trace[i].ev = "login_data"
              => /\ trace[i - 1].ev = "login_async"
                 /\ trace[i].a[1] = "true"
                       => (i + 2 <= Len(trace) /\ trace[i + 1].ev = "send")
        /\ trace[i].ev = "send"
              => /\ trace[i - 1].ev = "login_data"
                 /\ trace[i - 1].a[1] = "true"
                 /\ trace[i].a = <<"|/trn " \o name \o ",0," \o trace[i - 1].a[2]>>
                 /\ trace[i + 1].ev = "on_login"
        /\ trace[i].ev = "on_login" => trace[i - 1].ev = "send"
    /\ Len(SelectSeq(websocket, LAMBDA w : w.by = "receiver"))
          = Len(SelectSeq(trace, LAMBDA e : e.ev = "send"))
    /\ \A i \in DOMAIN websocket :
          websocket[i].by = "receiver" =>
              \E j \in DOMAIN trace :
                  trace[j].ev = "send" /\ trace[j].a = websocket[i].data
    /\ ~autologin => ~HasEntry("login_async")

C8_Witness == HasEntry("on_login") /\ challengekeyid = "4"

\* a hook was invoked or an event was processed to its end
Served ==
    \E i \in DOMAIN trace :
        trace[i].ev \in {"on_connect", "on_receive", "on_room_init", "on_room_deinit"}

ConfigError ==
    /\ tstate["receiver"] = "failed"
    /\ terr["receiver"] = Exc("Exception")

C10_RejectedLogin ==
    \A i \in DOMAIN trace :
        (trace[i].ev = "login_data" /\ trace[i].a[1] = "false") =>
            /\ i = Len(trace)
            /\ tstate["receiver"] = "failed"
            /\ terr["receiver"] =
                  [type |-> "ValueError",
                   raw |-> [actionsuccess |-> FALSE, assertion |-> trace[i].a[2]]]
            /\ \A j \in DOMAIN websocket : websocket[j].by # "receiver"

\* the (room_id, inp) pairs of the frames decoded so far, in the order read
RECURSIVE Wire(_)
Wire(tr) ==
    IF tr = <<>> THEN <<>>
    ELSE LET e == tr[Len(tr)]
             before == Wire(SubSeq(tr, 1, Len(tr) - 1))
         IN IF e.ev = "parse_socket_input" THEN before \o e.a ELSE before

\* the events the receive task began to process / handed to on_receive
Started == SelectSeq(trace, LAMBDA e : e.ev = "event")
Delivered == SelectSeq(trace, LAMBDA e : e.ev = "on_receive")

\* on_receive's arguments for a pair of the wire
HookArgs(pair) ==
    <<pair[1], parsed_line[pair[2]].inp_type>> \o parsed_line[pair[2]].params

\* C11: the events are processed in the order of the wire, frame after frame
\* and pair after pair; on_receive is called once for each event processed to
\* its end, with that event's room id, type and parameters, so its calls are
\* the wire sequence up to the event in progress; when the client holds the
\* event's room, add_content on that room comes right before on_receive and
\* the room has logged the line by then.
C11_InboundOrder ==
    LET wire == Wire(trace) IN
    /\ Len(Started) <= Len(wire)
    /\ \A i \in DOMAIN Started : Started[i].a = wire[i]
    /\ Len(Delivered) \in {Len(Started), Len(Started) - 1}
    /\ \A i \in DOMAIN Delivered : Delivered[i].a = HookArgs(wire[i])
    /\ Len(Delivered) + Len(inputs) = Len(wire)
    /\ (tstate["receiver"] = "running" /\ rpc = "recv")
          => Len(Delivered) = Len(wire)
    /\ \A k \in DOMAIN trace :
          trace[k].ev = "add_content" =>
              /\ k < Len(trace)
              /\ trace[k + 1].ev = "on_receive"
              /\ trace[k + 1].a[1] = trace[k].a[1]
    /\ (trace # <<>> /\ trace[Len(trace)].ev = "on_receive") =>
          LET pair == wire[Len(Delivered)] IN
          pair[1] \in DOMAIN rooms =>
              /\ trace[Len(trace) - 1] = Entry("receiver", "add_content", pair)
              /\ rooms[pair[1]].logs # <<>>
              /\ rooms[pair[1]].logs[Len(rooms[pair[1]].logs)] = pair[2]

\* two frames were processed to the end, the second with an event of a room
\* the client holds
C11_Witness ==
    /\ Len(SelectSeq(trace, LAMBDA e : e.ev = "parse_socket_input")) = 2
    /\ Len(Delivered) = Len(Wire(trace))
    /\ Len(Delivered) >= 4
    /\ \E k \in DOMAIN trace : trace[k].ev = "add_content"

\* frame_in was decoded without an exception
Decoded == pairs_out # NoneObj /\ pairs_out.err = ""

\* a block as the wire gives it: its lines, whether the first one is a room
\* marker, the room id it announces and the lines that are events
BlockLines(block) == splitlines(block)
HasMarker(block) == BlockLines(block) # <<>> /\ Head(BlockLines(block)[1]) = ">"
BlockRoom(block) ==
    IF HasMarker(block) /\ Len(BlockLines(block)[1]) > 1
    THEN Tail(BlockLines(block)[1])
    ELSE "lobby"
BlockEvents(block) ==
    IF HasMarker(block) THEN Tail(BlockLines(block)) ELSE BlockLines(block)

\* the number of events of the blocks before block b
RECURSIVE Offset(_, _)
Offset(blocks, b) ==
    IF b <= 1 THEN 0
    ELSE Offset(blocks, b - 1) + Len(BlockEvents(blocks[b - 1]))

ExampleFrame == ArrayFrame(<<">room1\nA\nB", ">room2\nC">>)

\* C12: a decoded frame gives its pairs in the order received: the events of
\* block b come after those of every earlier block, in the order of their
\* lines, each with the room id of block b, and there are no other pairs;
\* [">room1\nA\nB", ">room2\nC"] gives (room1,A), (room1,B), (room2,C).
C12_DecodeKeepsOrder ==
    Decoded =>
        LET blocks == frame_in.payload.items
            pairs == pairs_out.obj
        IN
        /\ Len(pairs) = Offset(blocks, Len(blocks) + 1)
        /\ \A b \in DOMAIN blocks :
              \A l \in DOMAIN BlockEvents(blocks[b]) :
                  pairs[Offset(blocks, b) + l]
                      = <<BlockRoom(blocks[b]), BlockEvents(blocks[b])[l]>>
        /\ frame_in = ExampleFrame
              => pairs = <<<<"room1", "A">>, <<"room1", "B">>, <<"room2", "C">>>>

C12_Witness ==
    /\ Decoded
    /\ frame_in = ExampleFrame
    /\ Len(pairs_out.obj) = 3

\* C13: when the first line of the first block does not begin with the
\* marker, every line of the block, the first included, is an event of
\* "lobby"; when that first line is the marker alone, the lines after it are
\* events of "lobby" and the marker line is no event.
C13_DefaultRoom ==
    (Decoded /\ frame_in.payload.items # <<>>) =>
        LET lines == splitlines(frame_in.payload.items[1])
            pairs == pairs_out.obj
        IN
        /\ ~startswith(lines[1], ">") =>
              /\ Len(pairs) >= Len(lines)
              /\ \A l \in DOMAIN lines : pairs[l] = <<"lobby", lines[l]>>
        /\ lines[1] = ">" =>
              /\ Len(pairs) >= Len(lines) - 1
              /\ \A l \in 1..(Len(lines) - 1) : pairs[l] = <<"lobby", lines[l + 1]>>
              /\ \A i \in DOMAIN pairs : pairs[i][2] # ">"
        /\ frame_in = ArrayFrame(<<"X\nY">>)
              => pairs = <<<<"lobby", "X">>, <<"lobby", "Y">>>>
        /\ frame_in = ArrayFrame(<<">\nX\nY">>)
              => pairs = <<<<"lobby", "X">>, <<"lobby", "Y">>>>

C13_Witness ==
    /\ Decoded
    /\ frame_in = ArrayFrame(<<"X\nY", ">\nX\nY">>)
    /\ Len(pairs_out.obj) = 4

\* the fields of a raw event line
Fields(line) == split(strip(line), "|")

\* the line events_out[k] was parsed from
LineOf(k) == pairs_out.obj[k][2]

\* C14 as stated: one field gives "rawtext" and that field; otherwise the
\* type is the second field lowercased and the parameters are the fields
\* from the fourth onward: "|c:|123|user|hello" gives c: and [user, hello].
C14_ParamsFromFourth ==
    \A k \in DOMAIN events_out :
        /\ Len(Fields(LineOf(k))) = 1
              => events_out[k] = [inp_type |-> "rawtext",
                                  params |-> <<Fields(LineOf(k))[1]>>]
        /\ Len(Fields(LineOf(k))) > 1
              => events_out[k] = [inp_type |-> lower(Fields(LineOf(k))[2]),
                                  params |-> ListFrom(Fields(LineOf(k)), 3)]
        /\ LineOf(k) = "|c:|123|user|hello"
              => events_out[k] = [inp_type |-> "c:", params |-> <<"user", "hello">>]

\* what each line of the blocks parses to
ExpectedEvent(line) ==
    IF line = "|c:|123|user|hello"
    THEN [inp_type |-> "c:", params |-> <<"123", "user", "hello">>]
    ELSE IF line = "|J|Ash" THEN [inp_type |-> "j", params |-> <<"Ash">>]
    ELSE [inp_type |-> "rawtext", params |-> <<line>>]

\* the number of delimiters of a line
RECURSIVE Pipes(_)
Pipes(line) ==
    IF line = "" THEN 0
    ELSE (IF Head(line) = "|" THEN 1 ELSE 0) + Pipes(Tail(line))

\* C14 as amended: one field gives "rawtext" and that field; otherwise the
\* type is the second field lowercased and the parameters are the fields
\* from the third onward, one for each delimiter after the second field:
\* "|c:|123|user|hello" gives c: and [123, user, hello].
C14_ParamsFromThird ==
    \A k \in DOMAIN events_out :
        /\ events_out[k] = ExpectedEvent(LineOf(k))
        /\ Pipes(LineOf(k)) = 0 <=> events_out[k].inp_type = "rawtext"
        /\ Pipes(LineOf(k)) > 0
              => Len(events_out[k].params) = Pipes(LineOf(k)) - 1

C14_Witness ==
    \E k \in DOMAIN events_out :
        /\ LineOf(k) = "|c:|123|user|hello"
        /\ Len(events_out[k].params) = 3
        /\ \E j \in DOMAIN events_out : events_out[j].inp_type = "rawtext"

\* the line applied by the step, when the step applies one to room
StepLine == roomApplied'[Len(roomApplied')]

\* C15: every key of the occupancy map is the normalized id of the User
\* under it; a join of a name whose normalized id is a key already keeps the
\* keys and puts the new User under that key; after users "5,user1,user2",
\* l "user1", j "User1" one occupant has the id user1 and its name is User1.
KeysAreIds ==
    \A k \in DOMAIN room.userlist :
        /\ room.userlist[k].id = k
        /\ name_to_id(room.userlist[k].name) = k

RejoinReplaces ==
    (/\ roomApplied' # roomApplied
     /\ parse_text_input(StepLine).inp_type = "j"
     /\ name_to_id(parse_text_input(StepLine).params[1]) \in DOMAIN room.userlist)
    => /\ DOMAIN room'.userlist = DOMAIN room.userlist
       /\ room'.userlist[name_to_id(parse_text_input(StepLine).params[1])].name
             = parse_text_input(StepLine).params[1]
       /\ \A k \in DOMAIN room.userlist :
             k # name_to_id(parse_text_input(StepLine).params[1])
                 => room'.userlist[k] = room.userlist[k]

LeaveAndRejoin ==
    roomApplied = <<"|users|5,user1,user2", "|l|user1", "|j|User1">> =>
        /\ roomErr = ""
        /\ DOMAIN room.userlist = {"user1", "user2"}
        /\ Cardinality({k \in DOMAIN room.userlist :
                            room.userlist[k].id = "user1"}) = 1
        /\ room.userlist["user1"] = [name |-> "User1", id |-> "user1"]

C15_Occupancy == [](KeysAreIds /\ LeaveAndRejoin) /\ [][RejoinReplaces]_vars

C15_Witness ==
    /\ roomApplied = <<"|users|5,user1,user2", "|l|user1", "|j|User1", "|j|+User2">>
    /\ room.userlist["user2"].name = "+User2"

OtherSlot(p) == IF p = "p1" THEN "p2" ELSE "p1"

\* both slots hold a User and the two display names differ
BothSlotsNamed(b) ==
    /\ b.players["p1"] # NoneObj
    /\ b.players["p2"] # NoneObj
    /\ b.players["p1"].name # b.players["p2"].name

\* C16: with both slots assigned distinct display names, a win event whose
\* name is the display name of slot p raises nothing, sets ended, makes slot
\* p the winner (winner, winner_id) and the other slot the loser (loser,
\* loser_id); players {p1: Ash, p2: Gary} and win Gary give winner_id p2
\* and loser_id p1.
C16_OutcomeResolution ==
    /\ (/\ applied # <<>>
        /\ LastApplied.inp_type = "win"
        /\ BothSlotsNamed(battle))
       => \A p \in {"p1", "p2"} :
             battle.players[p].name = LastApplied.params[1] =>
                 /\ lastErr = ""
                 /\ battle.ended
                 /\ battle.winner = battle.players[p]
                 /\ battle.winner_id = p
                 /\ battle.loser = battle.players[OtherSlot(p)]
                 /\ battle.loser_id = OtherSlot(p)
    /\ applied = <<"|player|p1|Ash", "|player|p2|Gary", "|win|Gary">>
       => /\ battle.ended
          /\ battle.winner_id = "p2"
          /\ battle.loser_id = "p1"
          /\ battle.winner.name = "Gary"
          /\ battle.loser.name = "Ash"

C16_Witness ==
    /\ applied = <<"|player|p1|Ash", "|player|p2|Gary", "|win|Gary">>
    /\ battle.winner_id = "p2"

\* no win event among the events applied
NoWinApplied ==
    \A i \in DOMAIN applied : parse_text_input(applied[i]).inp_type # "win"

\* C17: as long as no win event was applied to a Battle, ended is false and
\* winner, loser, winner_id and loser_id are unset, whatever player, rated,
\* tier, rule, title or occupancy events were applied.
C17_UnsetUntilWin ==
    NoWinApplied => Outcome(battle) = <<FALSE, NoneObj, NoneObj, None, None>>

C17_Witness ==
    /\ applied = <<"|player|p1|Ash", "|rated", "|tier|OU", "|j|Ash">>
    /\ battle.rated
    /\ battle.players["p1"] # NoneObj
    /\ ~battle.ended

\* the step is a call by the caller; TheCall is its entry
IsCall == calls' # calls
TheCall == calls'[Len(calls')]

Surface ==
    {"join", "leave", "say", "private_message", "forfeit", "save_replay",
     "upload_team", "search_battles"}

\* the strings the step added to the output queue
Added == SubSeq(output_queue', Len(output_queue) + 1, Len(output_queue'))

\* C18: a call of join, leave, say, private_message, forfeit, save_replay,
\* upload_team or search_battles adds exactly one item to the output queue
\* and writes nothing to the transport.
OneItemPerCall ==
    (IsCall /\ TheCall.cmd \in Surface) =>
        /\ Len(output_queue') = Len(output_queue) + 1
        /\ SubSeq(output_queue', 1, Len(output_queue)) = output_queue
        /\ websocket' = websocket

C18_OneItemPerCommand == [][OneItemPerCall]_vars

endswith(str, suffix) ==
    /\ Len(str) >= Len(suffix)
    /\ SubSeq(str, Len(str) - Len(suffix) + 1, Len(str)) = suffix

\* C19: for say and private_message, a content longer than 300 characters
\* raises under strict and nothing is queued or sent, and is cut to its
\* first 300 characters under non-strict, one item carrying the cut content
\* being queued; a content of at most 300 characters is queued unchanged and
\* without error under both.
ContentPolicy ==
    (IsCall /\ TheCall.cmd \in {"say", "private_message"}) =>
        LET content == TheCall.args[2] IN
        /\ websocket' = websocket
        /\ (Len(content) > 300 /\ TheCall.strict) =>
              (TheCall.err # "" /\ Added = <<>>)
        /\ (Len(content) > 300 /\ ~TheCall.strict) =>
              /\ TheCall.err = ""
              /\ Len(Added) = 1
              /\ endswith(Added[1], SubSeq(content, 1, 300))
              /\ ~endswith(Added[1], content)
        /\ Len(content) <= 300 =>
              /\ TheCall.err = ""
              /\ Len(Added) = 1
              /\ endswith(Added[1], content)

C19_ContentPolicy == [][ContentPolicy]_vars

\* C20: a call of login while no challenge was captured, or without a name
\* or a password, raises; no credential exchange is started, nothing is
\* written to the transport and the authentication fields stay as they were.
LoginRefused ==
    (/\ IsCall
     /\ TheCall.cmd = "login"
     /\ \/ challengekeyid = None
        \/ challstr = None
        \/ name = ""
        \/ password = "")
    => /\ TheCall.err = "Exception"
       /\ trace' = trace
       /\ websocket' = websocket
       /\ output_queue' = output_queue
       /\ UNCHANGED <<name, password, autologin, challengekeyid, challstr>>

C20_LoginBeforeChallenge == [][LoginRefused]_vars

\* login was refused before the challenge and went through after it
C20_Witness ==
    /\ Len(calls) = 2
    /\ calls[1] = CallEntry("login", <<>>, FALSE, "Exception")
    /\ calls[2] = CallEntry("login", <<>>, FALSE, "")
    /\ name # "" /\ password # ""
    /\ challengekeyid = "4"
    /\ \E i \in DOMAIN trace :
          /\ trace[i].by = "caller"
          /\ trace[i].ev = "login_async"
          /\ \E j \in 1..(i - 1) : IsChallenge(trace[j])

\* the step reads the control frame
ControlFrameRead ==
    /\ Len(trace') > Len(trace)
    /\ trace'[Len(trace) + 1] = Entry("receiver", "recv", <<"o", "none">>)

\* C21: reading the control frame calls on_connect once and does nothing
\* else: no pair is decoded, no event is processed, no other hook is called,
\* rooms and the authentication fields stay as they were and the receive
\* task goes on to its next read.
ControlFrameEffect ==
    ControlFrameRead =>
        /\ trace' = trace \o <<Entry("receiver", "recv", <<"o", "none">>),
                                Entry("receiver", "on_connect", <<>>)>>
        /\ UNCHANGED <<rooms, inputs, rpc, tstate, terr, name, password,
                       autologin, challengekeyid, challstr, websocket,
                       output_queue>>

C21_ControlFrame == [][ControlFrameEffect]_vars

\* the control frame was read while the client held a room
C21_Witness ==
    /\ rooms # <<>>
    /\ tstate["receiver"] = "running"
    /\ \E i \in DOMAIN trace : \E j \in DOMAIN trace :
          /\ i < j
          /\ trace[i].ev = "on_room_init"
          /\ trace[j].ev = "on_connect"

\* the last n elements of a sequence, all of them when it has fewer
Suffix(seq, n) ==
    IF Len(seq) <= n THEN seq ELSE SubSeq(seq, Len(seq) - n + 1, Len(seq))

\* C22: the log of a Room never holds more than its capacity, and it always
\* is the last capacity-many raw lines applied to the room, oldest first:
\* each line is appended at the tail and a full log loses its oldest entry.
C22_BoundedLog ==
    /\ room.maxlen = MaxLogs
    /\ Len(room.logs) <= room.maxlen
    /\ room.logs = Suffix(roomApplied, room.maxlen)

\* the log is full and has lost the first line applied
C22_Witness ==
    /\ Len(roomApplied) > MaxLogs
    /\ Len(room.logs) = MaxLogs
    /\ \A i \in DOMAIN room.logs : room.logs[i] # roomApplied[1]
    /\ room.logs[Len(room.logs)] = roomApplied[Len(roomApplied)]

IsLowerAlnum(c) == InStr(c, "abcdefghijklmnopqrstuvwxyzé") \/ InStr(c, "0123456789")

\* C23: the normalized id of a display string holds only lowercase letters
\* and digits, normalizing it again gives it back, and "+Zarel" and "zarel"
\* both normalize to "zarel".
C23_NormalizeIdempotent ==
    /\ Len(ids_out) >= 1 =>
          /\ \A i \in 1..Len(ids_out[1]) : IsLowerAlnum(CharAt(ids_out[1], i))
          /\ Len(ids_out[1]) <= Len(display)
          /\ display \in {"+Zarel", "zarel"} => ids_out[1] = "zarel"
          /\ display = "É_Z" => ids_out[1] = "éz"
    /\ Len(ids_out) = 2 => ids_out[2] = ids_out[1]

C23_Witness ==
    /\ display = "+Zarel"
    /\ ids_out = <<"zarel", "zarel">>

\* the step applies a name change to room; NewName and OldId are its params
IsRename ==
    /\ roomApplied' # roomApplied
    /\ parse_text_input(StepLine).inp_type = "n"
NewName == parse_text_input(StepLine).params[1]
OldId == parse_text_input(StepLine).params[2]

\* C24: an n event with params (new display name, old id) raises nothing,
\* takes the old id out of the occupancy keys unless it is the normalized
\* new name, puts the new User under the normalized new name and leaves
\* every other occupant alone; when the old id was a key the number of
\* occupants does not grow, and when it was not, removing it changes nothing.
RenameEffect ==
    IsRename =>
        LET new_id == name_to_id(NewName)
            before == room.userlist
            after == room'.userlist
        IN
        /\ roomErr' = ""
        /\ OldId \notin DOMAIN after \/ OldId = new_id
        /\ new_id \in DOMAIN after
        /\ after[new_id].name = NewName
        /\ DOMAIN after = ((DOMAIN before) \ {OldId}) \cup {new_id}
        /\ \A k \in DOMAIN after : k # new_id => after[k] = before[k]
        /\ OldId \in DOMAIN before
              => Cardinality(DOMAIN after) <= Cardinality(DOMAIN before)
        /\ OldId \notin DOMAIN before
              => DOMAIN after = (DOMAIN before) \cup {new_id}

C24_NameChange == [][RenameEffect]_vars

\* user2 took the name User3, then a rename of the absent user2 again
C24_Witness ==
    /\ roomApplied = <<"|users|5,user1,user2", "|n|User3|user2", "|n|User3|user2">>
    /\ DOMAIN room.userlist = {"user1", "user3"}
    /\ roomErr = ""

\* C25: the players of a Battle always have exactly the keys p1 and p2: a
\* player event fills one of the two slots and adds no third key, whatever
\* slot token it carries.
C25_TwoSlots == DOMAIN battle.players = {"p1", "p2"}

\* the number of strings the drain task took from the queue
Taken == Len(enq) - Len(output_queue)

\* a task of the group has ended or was asked to
Terminated ==
    \E t \in Tasks : tstate[t] \in {"failed", "cancelling", "cancelled"}

SenderEnded == tstate["sender"] \in {"failed", "cancelling", "cancelled"}

\* C26: every string handed to add_output is written by the drain task at
\* some later time unless a task of the group ends first, and none is
\* written twice: what was written is the initial part of what was taken,
\* at most one string is between the queue and the transport, and the queue
\* is the rest; a string taken from the queue never comes back to it, and
\* once the drain task has failed or was cancelled the string it held is
\* not written.
WrittenOnce ==
    /\ Taken >= 0
    /\ output_queue = SubSeq(enq, Taken + 1, Len(enq))
    /\ \A i \in DOMAIN SenderWrites : SenderWrites[i].data = <<enq[i]>>
    /\ Len(websocket) = Len(SenderWrites)
    /\ Taken - Len(SenderWrites) = (IF spc = "send" THEN 1 ELSE 0)

NeverPutBack ==
    /\ Len(enq') - Len(output_queue') >= Taken
    /\ SenderEnded =>
          /\ websocket' = websocket
          /\ Len(enq') - Len(output_queue') = Taken

C26_OutputLiveness ==
    /\ []WrittenOnce
    /\ [][NeverPutBack]_vars
    /\ \A k \in 1..MaxOut :
          (Len(enq) >= k) ~> (Len(SenderWrites) >= k \/ Terminated)

\* the drain task was cancelled holding the second string: the first was
\* written, the second is neither written nor back in the queue
C26_Witness ==
    /\ hpc = "closed"
    /\ tstate["sender"] = "cancelled"
    /\ spc = "send"
    /\ Len(enq) = 2
    /\ output_queue = <<>>
    /\ Len(SenderWrites) = 1
    /\ out = <<enq[2]>>

====
